---- MODULE Spec2Model ----
(***************************************************************************)
(* The tslint rule member-access-except-decorators                         *)
(* (src/src/memberAccessExceptDecoratorsRule.ts).                          *)
(*                                                                         *)
(* The rule reads a parsed source file.  The model keeps the file as its   *)
(* text, a pre-order sequence of nodes, each with the tokens of its header *)
(* (decorators, modifiers, keyword, name) and the trivia in front of each  *)
(* token.  The syntax tree the rule reads (node.decorators,                *)
(* node.modifiers, node.name, the offsets) is parsed from that text, so    *)
(* that a fix, which is an insertion of text at an offset, is applied to   *)
(* the text and the rule runs again on what the text then parses to.       *)
(* Bodies and closing tokens carry no width in this layout: the rule reads *)
(* no offset but those of the tokens of a member's header.                 *)
(***************************************************************************)
EXTENDS Naturals, Sequences, FiniteSets, TLC

VARIABLES sourceFile, pc, stack, visited, failures, fixedNodes

vars == <<sourceFile, pc, stack, visited, failures, fixedNodes>>

\* The file's length in tokens.
MaxTokens == 4

\* How many fixes the host applies before it stops.
MaxFixes == 1

----------------------------------------------------------------------------
\* Syntax kinds and token texts

ClassLikeKinds == {"ClassDeclaration", "ClassExpression"}

ClassElementKinds ==
  {"MethodDeclaration", "PropertyDeclaration", "GetAccessor", "SetAccessor",
   "Constructor", "IndexSignature"}

NamedKinds ==
  {"MethodDeclaration", "PropertyDeclaration", "GetAccessor", "SetAccessor",
   "Parameter"}

DecoratedKinds == NamedKinds

ModifierKeywords == {"public", "private", "protected", "static"}

NameTokens == {"Identifier", "StringLiteral", "ComputedPropertyName"}

\* The text of a token of kind k.
TokenText(k) ==
  CASE k = "@" -> "@dec()"
    [] k = "Identifier" -> "foo"
    [] k = "StringLiteral" -> "'foo'"
    [] k = "ComputedPropertyName" -> "[foo]"
    [] k = "[" -> "[key: string]: any"
    [] OTHER -> k

Tok(k, lead) == [k |-> k, lead |-> lead]

RECURSIVE TextLen(_)
\* The length of the text of a token sequence, trivia included.
TextLen(toks) ==
  IF toks = <<>> THEN 0
  ELSE toks[1].lead + Len(TokenText(toks[1].k)) + TextLen(Tail(toks))

RECURSIVE FullStart(_, _)
\* node.pos: the offset at which node n's text, leading trivia included, begins.
FullStart(f, n) ==
  IF n <= 1 THEN 0 ELSE FullStart(f, n - 1) + TextLen(f[n - 1].toks)

\* The offsets of token i of node n: where its trivia begins, where it begins, where it ends.
TokPos(f, n, i) == FullStart(f, n) + TextLen(SubSeq(f[n].toks, 1, i - 1))
TokStart(f, n, i) == TokPos(f, n, i) + f[n].toks[i].lead
TokEnd(f, n, i) == TokStart(f, n, i) + Len(TokenText(f[n].toks[i].k))

Span(f, n, i) == [start |-> TokStart(f, n, i), end |-> TokEnd(f, n, i)]

----------------------------------------------------------------------------
\* The syntax tree, as the parser gives it for the text

\* The number of decorators in front of a declaration.
NumDecorators(toks) ==
  CHOOSE d \in 0..Len(toks) :
    /\ \A i \in 1..d : toks[i].k = "@"
    /\ d = Len(toks) \/ toks[d + 1].k # "@"

\* A keyword is a modifier when the token after it can follow a modifier.
IsModifierAt(toks, i) ==
  /\ toks[i].k \in ModifierKeywords
  /\ i + 1 <= Len(toks)
  /\ toks[i + 1].k # "@"

NumModifiers(toks) ==
  LET d == NumDecorators(toks) IN
  CHOOSE m \in 0..(Len(toks) - d) :
    /\ \A i \in (d + 1)..(d + m) : IsModifierAt(toks, i)
    /\ d + m = Len(toks) \/ ~IsModifierAt(toks, d + m + 1)

\* The index of the token that is the declaration's name, 0 when it has none.
NameIndex(kind, toks) ==
  LET i == NumDecorators(toks) + NumModifiers(toks) + 1
      j == IF kind \in {"GetAccessor", "SetAccessor"} /\ i < Len(toks)
              /\ toks[i].k \in {"get", "set"}
           THEN i + 1 ELSE i
  IN IF kind \in NamedKinds /\ j <= Len(toks)
        /\ toks[j].k \in NameTokens \cup ModifierKeywords \cup {"get", "set"}
     THEN j ELSE 0

\* The node the rule reads; decorators and name are <<>> for undefined.
AstNode(f, n) ==
  LET toks == f[n].toks
      d == NumDecorators(toks)
      m == NumModifiers(toks)
      j == NameIndex(f[n].kind, toks)
  IN [id |-> n,
      kind |-> f[n].kind,
      pos |-> FullStart(f, n),
      end |-> FullStart(f, n) + TextLen(toks),
      decorators |->
        IF d = 0 THEN <<>>
        ELSE <<[pos |-> FullStart(f, n), end |-> TokEnd(f, n, d)]>>,
      modifiers |->
        [i \in 1..m |->
          [kind |-> toks[d + i].k,
           start |-> TokStart(f, n, d + i), end |-> TokEnd(f, n, d + i)]],
      name |->
        IF j = 0 THEN <<>>
        ELSE <<[kind |-> IF toks[j].k \in {"StringLiteral", "ComputedPropertyName"}
                         THEN toks[j].k ELSE "Identifier",
                text |-> IF toks[j].k \in NameTokens THEN "foo" ELSE toks[j].k,
                start |-> TokStart(f, n, j), end |-> TokEnd(f, n, j)]>>]

Nodes(f) == 1..Len(f)

Range(q) == {q[i] : i \in 1..Len(q)}

RECURSIVE ChildrenFrom(_, _, _)
ChildrenFrom(f, n, m) ==
  IF m > Len(f) THEN <<>>
  ELSE IF f[m].parent = n THEN <<m>> \o ChildrenFrom(f, n, m + 1)
  ELSE ChildrenFrom(f, n, m + 1)

\* The children ts.forEachChild hands to its callback, in source order.
Children(f, n) == ChildrenFrom(f, n, 1)

\* node.members of a class-like declaration.
Members(f, n) ==
  SelectSeq(Children(f, n), LAMBDA m : f[m].kind \in ClassElementKinds)

isClassLikeDeclaration(f, n) == f[n].kind \in ClassLikeKinds

----------------------------------------------------------------------------
\* The rule

undefined == <<>>

\* shouldCheck, had it exempted every decorated member and not only properties.
shouldCheckUndecorated(node) ==
  /\ node.kind \in {"GetAccessor", "SetAccessor", "MethodDeclaration",
                    "PropertyDeclaration"}
  /\ node.decorators = undefined

\* shouldCheck, had it not exempted decorated properties.
shouldCheckDecoratedToo(node) ==
  node.kind \in {"GetAccessor", "SetAccessor", "MethodDeclaration",
                 "PropertyDeclaration"}

\* shouldCheck, had its default case returned true.
shouldCheckAnyMember(node) ==
  node.kind = "PropertyDeclaration" => node.decorators = undefined

shouldCheck(node) ==
  CASE node.kind \in {"GetAccessor", "SetAccessor", "MethodDeclaration"} -> TRUE
    [] node.kind = "PropertyDeclaration" -> node.decorators = undefined
    [] OTHER -> FALSE

\* tsutils hasModifier: one of the modifiers is of one of the kinds.
hasModifier(modifiers, kinds) ==
  \E i \in 1..Len(modifiers) : modifiers[i].kind \in kinds

\* tsutils getModifier: the first modifier of the kind, or undefined.
getModifier(node, kind) ==
  LET found == SelectSeq(node.modifiers, LAMBDA m : m.kind = kind)
  IN IF found = <<>> THEN undefined ELSE <<found[1]>>

\* tsutils getChildOfKind, for the constructor keyword of a constructor.
getChildOfKind(f, node, kind) ==
  LET at == {i \in 1..Len(f[node.id].toks) : f[node.id].toks[i].k = kind}
  IN IF at = {} THEN undefined
     ELSE <<Span(f, node.id, CHOOSE i \in at : \A j \in at : i <= j)>>

\* getTokenAtPosition, had it taken a token that ends at pos.
getTokenAtPositionInclusive(f, parent, pos) ==
  LET at == {i \in 1..Len(f[parent.id].toks) : TokEnd(f, parent.id, i) >= pos}
  IN IF pos < parent.pos \/ pos >= parent.end \/ at = {} THEN undefined
     ELSE <<Span(f, parent.id, CHOOSE i \in at : \A j \in at : i <= j)>>

\* tsutils getTokenAtPosition: the first token of the node that ends after pos.
getTokenAtPosition(f, parent, pos) ==
  LET at == {i \in 1..Len(f[parent.id].toks) : TokEnd(f, parent.id, i) > pos}
  IN IF pos < parent.pos \/ pos >= parent.end \/ at = {} THEN undefined
     ELSE <<Span(f, parent.id, CHOOSE i \in at : \A j \in at : i <= j)>>

\* node.getStart(sourceFile) of a member without decorators: its first token's start.
getStart(f, node) == TokStart(f, node.id, 1)

\* getInsertionPosition, had it taken the member's start with or without decorators.
getInsertionPositionAtMemberStart(f, member) ==
  [threw |-> FALSE, value |-> getStart(f, member)]

\* The offset, or a throw when the token after the decorators is not found.
getInsertionPosition(f, member) ==
  IF member.decorators = undefined
  THEN [threw |-> FALSE, value |-> getStart(f, member)]
  ELSE LET node == getTokenAtPosition(f, member, member.decorators[1].end)
       IN IF node = undefined THEN [threw |-> TRUE, value |-> 0]
          ELSE [threw |-> FALSE, value |-> node[1].start]

\* typeToString, had its default case returned a label.
typeToStringWithDefault(node) ==
  CASE node.kind = "MethodDeclaration" -> [threw |-> FALSE, value |-> "class method"]
    [] node.kind = "PropertyDeclaration" -> [threw |-> FALSE, value |-> "class property"]
    [] node.kind = "GetAccessor" -> [threw |-> FALSE, value |-> "get property accessor"]
    [] node.kind = "SetAccessor" -> [threw |-> FALSE, value |-> "set property accessor"]
    [] node.kind = "Parameter" -> [threw |-> FALSE, value |-> "parameter property"]
    [] OTHER -> [threw |-> FALSE, value |-> "class member"]

typeToString(node) ==
  CASE node.kind = "MethodDeclaration" -> [threw |-> FALSE, value |-> "class method"]
    [] node.kind = "PropertyDeclaration" -> [threw |-> FALSE, value |-> "class property"]
    [] node.kind = "GetAccessor" -> [threw |-> FALSE, value |-> "get property accessor"]
    [] node.kind = "SetAccessor" -> [threw |-> FALSE, value |-> "set property accessor"]
    [] node.kind = "Parameter" -> [threw |-> FALSE, value |-> "parameter property"]
    [] OTHER -> [threw |-> TRUE, value |-> ""]

FAILURE_STRING_FACTORY(memberType, memberName) ==
  LET name == IF memberName = undefined THEN "" ELSE " '" \o memberName[1] \o "'"
  IN "The " \o memberType \o name
       \o " must be marked either 'private', 'public', or 'protected'"

\* check's memberName, had it taken the text of a name of any kind.
MemberNameOfAnyKind(node) ==
  IF node.name # undefined THEN <<node.name[1].text>> ELSE undefined

\* check's memberName: the text of a name that is an identifier.
MemberName(node) ==
  IF node.name # undefined /\ node.name[1].kind = "Identifier"
  THEN <<node.name[1].text>> ELSE undefined

\* check's nameNode, had it been the member itself.
NameNodeWholeMember(f, node) ==
  <<[start |-> TokStart(f, node.id, 1), end |-> node.end]>>

\* check's nameNode: the node the failure is reported at.
NameNode(f, node) ==
  IF node.kind = "Constructor" THEN getChildOfKind(f, node, "constructor")
  ELSE IF node.name # undefined
       THEN <<[start |-> node.name[1].start, end |-> node.name[1].end]>>
       ELSE <<[start |-> TokStart(f, node.id, 1), end |-> node.end]>>

\* The modifiers that end check without a failure.
PassingModifiers == {"protected", "private"}

\* check(node): the failures it adds, or a throw, in the order the code evaluates:
\* typeToString throws before ctx.addFailureAtNode is entered.  A failure's node
\* field names the member it is for; the rule's failure holds the rest.
check(f, node) ==
  IF hasModifier(node.modifiers, PassingModifiers)
  THEN [threw |-> FALSE, failures |-> <<>>]
  ELSE IF getModifier(node, "public") # undefined
  THEN [threw |-> FALSE, failures |-> <<>>]
  ELSE LET nameNode == NameNode(f, node)
           type == typeToString(node)
           at == getInsertionPosition(f, node)
       IN IF type.threw \/ at.threw \/ nameNode = undefined
          THEN [threw |-> TRUE, failures |-> <<>>]
          ELSE [threw |-> FALSE,
                failures |->
                  <<[node |-> node.id,
                     start |-> nameNode[1].start,
                     end |-> nameNode[1].end,
                     message |-> FAILURE_STRING_FACTORY(type.value, MemberName(node)),
                     fix |-> [start |-> at.value, length |-> 0, text |-> "public "]]>>]

\* The members handed to check, had recur also handed it the parameters of the
\* constructors.
CheckedMembersAndParameters(f, n) ==
  LET RECURSIVE Each(_)
      Each(ms) ==
        IF ms = <<>> THEN <<>>
        ELSE (IF shouldCheck(AstNode(f, ms[1])) THEN <<ms[1]>>
              ELSE IF f[ms[1]].kind = "Constructor"
              THEN SelectSeq(Children(f, ms[1]), LAMBDA c : f[c].kind = "Parameter")
              ELSE <<>>) \o Each(Tail(ms))
  IN Each(Members(f, n))

\* The members of a class-like declaration that recur hands to check.
CheckedMembers(f, n) ==
  SelectSeq(Members(f, n), LAMBDA m : shouldCheck(AstNode(f, m)))

RECURSIVE CheckAll(_, _)
\* The for loop of recur over the members: stops at the first throw.
CheckAll(f, ms) ==
  IF ms = <<>> THEN [threw |-> FALSE, failures |-> <<>>]
  ELSE LET r == check(f, AstNode(f, ms[1]))
       IN IF r.threw THEN r
          ELSE LET rest == CheckAll(f, Tail(ms))
               IN [threw |-> rest.threw, failures |-> r.failures \o rest.failures]

----------------------------------------------------------------------------
\* The source files the rule is run on

\* The sequences of at most n elements of S, none twice.
SeqsUpTo(S, n) ==
  UNION {{q \in [1..k -> S] : \A i, j \in 1..k : i # j => q[i] # q[j]} : k \in 0..n}

\* The names the files give to properties.
LiteralNameTokens == {"Identifier", "StringLiteral"}

\* The tokens that end the header of a node of the kind: its keyword, its name.
HeaderTails(kind) ==
  CASE kind = "MethodDeclaration" -> {<<Tok(nm, 1)>> : nm \in NameTokens}
    [] kind = "PropertyDeclaration" -> {<<Tok(nm, 1)>> : nm \in LiteralNameTokens}
    [] kind = "GetAccessor" -> {<<Tok("get", 1), Tok("Identifier", 1)>>}
    [] kind = "SetAccessor" -> {<<Tok("set", 1), Tok("Identifier", 1)>>}
    [] kind = "Parameter" -> {<<Tok("Identifier", 1)>>}
    [] kind = "Constructor" -> {<<Tok("constructor", 1)>>}
    [] kind = "IndexSignature" -> {<<Tok("[", 1)>>}
    [] kind \in ClassLikeKinds -> {<<Tok("class", 1)>>}
    [] OTHER -> {<<Tok("{", 1)>>}

\* The kinds whose headers the files give modifiers.
ModifiedKinds == NamedKinds \cup {"Constructor"}

\* toks with the trivia in front of its first token set to lead.
WithLead(toks, lead) == [toks EXCEPT ![1] = Tok(toks[1].k, lead)]

\* The headers of at most b tokens a node of the kind can have: decorators, then
\* modifiers, then the tail; the token after a decorator may follow it directly.
Headers(kind, b) ==
  UNION {
    UNION {
      UNION {
        { [i \in 1..d |-> Tok("@", 1)] \o WithLead(mods \o tail, lead)
            : lead \in IF d = 0 THEN {1} ELSE {0, 1} }
          : mods \in IF kind \in ModifiedKinds
                     THEN SeqsUpTo({Tok(k, 1) : k \in ModifierKeywords}, b - Len(tail) - d)
                     ELSE {<<>>} }
        : d \in IF kind \in DecoratedKinds THEN 0..(b - Len(tail)) ELSE {0} }
      : tail \in {t \in HeaderTails(kind) : Len(t) <= b} }

AllKinds ==
  ClassLikeKinds \cup ClassElementKinds \cup {"Parameter", "Block"}

\* Headers, tabulated.
HeaderTable == [kind \in AllKinds |-> [b \in 0..MaxTokens |-> Headers(kind, b)]]

\* The kinds a child of a node of kind pk can have.
ChildKinds(pk) ==
  CASE pk \in {"SourceFile", "Block"} -> {"ClassDeclaration", "Block"}
    [] pk \in ClassLikeKinds -> ClassElementKinds
    [] pk = "Constructor" -> {"Parameter"}
    [] pk = "MethodDeclaration" -> {"ClassExpression", "Block"}
    [] pk = "PropertyDeclaration" -> {"ClassExpression"}
    [] pk \in {"GetAccessor", "SetAccessor"} -> {"Block"}
    [] OTHER -> {}

KindOf(f, n) == IF n = 0 THEN "SourceFile" ELSE f[n].kind

RECURSIVE AncestorsOrSelf(_, _)
AncestorsOrSelf(f, n) ==
  IF n = 0 THEN {0} ELSE {n} \cup AncestorsOrSelf(f, f[n].parent)

RECURSIVE IsFile(_, _)
\* sourceFile begins with f and adds at most b tokens, nodes in pre-order.
IsFile(f, b) ==
  \/ sourceFile = f
  \/ \E p \in AncestorsOrSelf(f, Len(f)) :
       \E kind \in ChildKinds(KindOf(f, p)) :
         \E toks \in HeaderTable[kind][b] :
           IsFile(Append(f, [kind |-> kind, parent |-> p, toks |-> toks]),
                  b - Len(toks))

----------------------------------------------------------------------------
\* The host: applying a failure's fix to the text

\* The text with "public " inserted at offset pos: a token and a blank, in front
\* of the token whose leading trivia or start pos falls on.
InsertText(f, pos) ==
  LET hits == {h \in Nodes(f) \X (1..(MaxTokens + MaxFixes)) :
                 /\ h[2] <= Len(f[h[1]].toks)
                 /\ TokPos(f, h[1], h[2]) <= pos
                 /\ pos <= TokStart(f, h[1], h[2])}
  IN IF hits = {} THEN f
     ELSE LET h == CHOOSE x \in hits : TRUE
              n == h[1]
              i == h[2]
              toks == f[n].toks
              new == SubSeq(toks, 1, i - 1)
                       \o <<Tok("public", pos - TokPos(f, n, i)),
                            Tok(toks[i].k, TokStart(f, n, i) - pos + 1)>>
                       \o SubSeq(toks, i + 1, Len(toks))
          IN [f EXCEPT ![n].toks = new]

----------------------------------------------------------------------------
\* The walk

\* recur's descent, had it stopped at a class-like declaration.
RecurChildrenUnlessClass(f, node) ==
  IF isClassLikeDeclaration(f, node) THEN <<>> ELSE Children(f, node)

\* The nodes recur goes on to: ts.forEachChild(node, recur), which ends early
\* only when recur returns a truthy value, and recur returns none.
RecurChildren(f, node) == Children(f, node)

Init ==
  /\ IsFile(<<>>, MaxTokens)
  /\ pc = "start"
  /\ stack = <<>>
  /\ visited = <<>>
  /\ failures = <<>>
  /\ fixedNodes = {}

\* walk: ts.forEachChild(ctx.sourceFile, recur).
Apply ==
  /\ pc = "start"
  /\ stack' = Children(sourceFile, 0)
  /\ pc' = "walk"
  /\ UNCHANGED <<sourceFile, visited, failures, fixedNodes>>

\* recur(node): the members of a class-like declaration, then the children.
Recur ==
  /\ pc = "walk"
  /\ stack # <<>>
  /\ LET node == Head(stack)
         r == IF isClassLikeDeclaration(sourceFile, node)
              THEN CheckAll(sourceFile, CheckedMembers(sourceFile, node))
              ELSE [threw |-> FALSE, failures |-> <<>>]
     IN /\ failures' = failures \o r.failures
        /\ visited' = Append(visited, node)
        /\ IF r.threw
           THEN pc' = "error" /\ stack' = <<>>
           ELSE pc' = pc /\ stack' = RecurChildren(sourceFile, node) \o Tail(stack)
  /\ UNCHANGED <<sourceFile, fixedNodes>>

\* apply returns the failures of the walk.
Return ==
  /\ pc = "walk"
  /\ stack = <<>>
  /\ pc' = "done"
  /\ UNCHANGED <<sourceFile, stack, visited, failures, fixedNodes>>

\* The host applies the fix of one failure and runs the rule on the result.
ApplyFix ==
  /\ pc = "done"
  /\ Cardinality(fixedNodes) < MaxFixes
  /\ \E i \in 1..Len(failures) :
       /\ sourceFile' = InsertText(sourceFile, failures[i].fix.start)
       /\ fixedNodes' = fixedNodes \cup {failures[i].node}
  /\ pc' = "start"
  /\ stack' = <<>>
  /\ visited' = <<>>
  /\ failures' = <<>>

Next == Apply \/ Recur \/ Return \/ ApplyFix

Spec == Init /\ [][Next]_vars

----------------------------------------------------------------------------
\* check called on a node of any kind

InitCheck ==
  /\ IsFile(<<>>, MaxTokens)
  /\ pc = "call"
  /\ stack = <<>>
  /\ visited = <<>>
  /\ failures = <<>>
  /\ fixedNodes = {}

\* A caller hands a class element or a parameter to check.
CallCheck ==
  /\ pc = "call"
  /\ \E n \in {m \in Nodes(sourceFile) :
                 sourceFile[m].kind \in ClassElementKinds \cup {"Parameter"}} :
       LET r == check(sourceFile, AstNode(sourceFile, n))
       IN /\ failures' = failures \o r.failures
          /\ visited' = <<n>>
          /\ pc' = IF r.threw THEN "error" ELSE "returned"
  /\ UNCHANGED <<sourceFile, stack, fixedNodes>>

NextCheck == CallCheck

SpecCheck == InitCheck /\ [][NextCheck]_vars

----------------------------------------------------------------------------
\* What the properties speak of

Done == pc = "done"

Ast(n) == AstNode(sourceFile, n)

\* The failures reported for node n.
FailuresAt(n) == {i \in 1..Len(failures) : failures[i].node = n}

VisibilityKeywords == {"public", "private", "protected"}

\* The modifier list of node n holds public, private or protected.
HasVisibility(n) ==
  LET toks == sourceFile[n].toks
      d == NumDecorators(toks)
  IN \E i \in (d + 1)..(d + NumModifiers(toks)) : toks[i].k \in VisibilityKeywords

HasDecorators(n) == sourceFile[n].toks[1].k = "@"

\* Node n is a member of a class-like declaration.
IsClassMember(n) ==
  /\ sourceFile[n].parent # 0
  /\ sourceFile[sourceFile[n].parent].kind \in ClassLikeKinds
  /\ sourceFile[n].kind \in ClassElementKinds

\* The class-like declaration a failure's member belongs to.
ClassOf(n) == sourceFile[n].parent

\* The label the specification gives each kind of member.
LabelOf(kind) ==
  CASE kind = "MethodDeclaration" -> "class method"
    [] kind = "PropertyDeclaration" -> "class property"
    [] kind = "GetAccessor" -> "get property accessor"
    [] kind = "SetAccessor" -> "set property accessor"
    [] OTHER -> "parameter property"

NamedMessage(label, name) ==
  "The " \o label \o " '" \o name \o "' must be marked either 'private', 'public', or 'protected'"

UnnamedMessage(label) ==
  "The " \o label \o " must be marked either 'private', 'public', or 'protected'"

\* The start of the member's own keyword or name: its first token after the
\* decorators and the modifiers.
OwnStart(n) ==
  TokStart(sourceFile, n,
           NumDecorators(sourceFile[n].toks) + NumModifiers(sourceFile[n].toks) + 1)

----------------------------------------------------------------------------
C3_Properties ==
  Done =>
    \A n \in Nodes(sourceFile) :
      (IsClassMember(n) /\ sourceFile[n].kind = "PropertyDeclaration")
        => (FailuresAt(n) # {} <=> (~HasDecorators(n) /\ ~HasVisibility(n)))

\* apply has returned with no failure for a decorated property without a
\* visibility modifier.
C3_Witness ==
  /\ Done
  /\ \E n \in Nodes(sourceFile) :
       /\ sourceFile[n].kind = "PropertyDeclaration"
       /\ HasDecorators(n)
       /\ ~HasVisibility(n)
       /\ FailuresAt(n) = {}

\* C4: when the fix of a member's failure has been inserted and apply has run
\* again, the member has no failure and "public" is one of its modifiers.
C4_FixIdempotent ==
  Done =>
    \A n \in fixedNodes :
      /\ FailuresAt(n) = {}
      /\ hasModifier(Ast(n).modifiers, {"public"})

\* apply has run again after the fix of a decorated member was inserted.
C4_Witness ==
  /\ Done
  /\ \E n \in fixedNodes : HasDecorators(n)

\* The end offset of the last decorator of node n.
DecoratorsEnd(n) == TokEnd(sourceFile, n, NumDecorators(sourceFile[n].toks))

\* C5 as stated: the fix of a failure for a decorated member is inserted strictly
\* after the end of its last decorator and at or before the start of its own
\* keyword or name; for a member without decorators, at the member's start.
C5_InsertionStrictlyAfterDecorators ==
  Done =>
    \A i \in 1..Len(failures) :
      LET n == failures[i].node
          at == failures[i].fix.start
      IN IF HasDecorators(n)
         THEN at > DecoratorsEnd(n) /\ at <= OwnStart(n)
         ELSE at = TokStart(sourceFile, n, 1)

\* C5 as amended: the offset is at or after the end of the last decorator, and
\* equal to it exactly when the next token follows the decorators directly.
C5_InsertionAfterDecorators ==
  Done =>
    \A i \in 1..Len(failures) :
      LET n == failures[i].node
          at == failures[i].fix.start
          d == NumDecorators(sourceFile[n].toks)
      IN IF HasDecorators(n)
         THEN /\ at >= DecoratorsEnd(n)
              /\ at <= OwnStart(n)
              /\ (at = DecoratorsEnd(n) <=> sourceFile[n].toks[d + 1].lead = 0)
         ELSE at = TokStart(sourceFile, n, 1)

\* apply has returned with a failure for a decorated member whose next token
\* follows the decorators directly, and that token is a modifier.
C5_Witness ==
  /\ Done
  /\ \E i \in 1..Len(failures) :
       LET n == failures[i].node
           d == NumDecorators(sourceFile[n].toks)
       IN /\ d > 0
          /\ sourceFile[n].toks[d + 1].lead = 0
          /\ Len(Ast(n).modifiers) > 0

\* C6 as stated: the message of a failure for a member with a name of any kind
\* holds the label and the name in quotes.
C6_EveryNameInMessage ==
  Done =>
    \A i \in 1..Len(failures) :
      LET node == Ast(failures[i].node)
      IN IF node.name # undefined
         THEN failures[i].message = NamedMessage(LabelOf(node.kind), node.name[1].text)
         ELSE failures[i].message = UnnamedMessage(LabelOf(node.kind))

\* C6 as amended: the message holds the name in quotes when the name is an
\* identifier; for any other name, and for a member with no name, it holds the
\* label alone.
C6_IdentifierNameInMessage ==
  Done =>
    \A i \in 1..Len(failures) :
      LET node == Ast(failures[i].node)
      IN IF node.name # undefined /\ node.name[1].kind = "Identifier"
         THEN failures[i].message = NamedMessage(LabelOf(node.kind), node.name[1].text)
         ELSE failures[i].message = UnnamedMessage(LabelOf(node.kind))

\* apply has returned with a failure for a member named by a string literal and
\* one for a member named by an identifier.
C6_Witness ==
  /\ Done
  /\ \E i, j \in 1..Len(failures) :
       /\ Ast(failures[i].node).name[1].kind = "StringLiteral"
       /\ Ast(failures[j].node).name[1].kind = "Identifier"

\* C7: a failure is reported at the member's name when it has one, at the
\* constructor keyword of a constructor, at the whole member otherwise: its start
\* and end are those of that node.
C7_FailureLocation ==
  Done =>
    \A i \in 1..Len(failures) :
      LET n == failures[i].node
          toks == sourceFile[n].toks
          j == NameIndex(sourceFile[n].kind, toks)
      IN IF sourceFile[n].kind = "Constructor"
         THEN \E c \in 1..Len(toks) :
                /\ toks[c].k = "constructor"
                /\ failures[i].start = TokStart(sourceFile, n, c)
                /\ failures[i].end = TokEnd(sourceFile, n, c)
         ELSE IF j # 0
         THEN /\ failures[i].start = TokStart(sourceFile, n, j)
              /\ failures[i].end = TokEnd(sourceFile, n, j)
         ELSE /\ failures[i].start = TokStart(sourceFile, n, 1)
              /\ failures[i].end = TokEnd(sourceFile, n, Len(toks))

\* apply has returned with a failure for a member whose name comes after a
\* decorator and a modifier.
C7_Witness ==
  /\ Done
  /\ \E i \in 1..Len(failures) :
       /\ HasDecorators(failures[i].node)
       /\ Len(Ast(failures[i].node).modifiers) > 0

\* A member that violates the rule: a method or accessor, or a property without
\* decorators, that has none of public, private, protected.
Violating(n) ==
  /\ IsClassMember(n)
  /\ \/ sourceFile[n].kind \in {"MethodDeclaration", "GetAccessor", "SetAccessor"}
     \/ sourceFile[n].kind = "PropertyDeclaration" /\ ~HasDecorators(n)
  /\ ~HasVisibility(n)

\* C8: when apply has returned, every node has been visited once, in pre-order;
\* every violating member, at any depth, has exactly one failure; the failures of
\* one declaration are in source order, and those of an outer declaration come
\* before those of a declaration nested in it.
C8_Traversal ==
  Done =>
    /\ visited = [i \in 1..Len(sourceFile) |-> i]
    /\ \A n \in Nodes(sourceFile) :
         Cardinality(FailuresAt(n)) = IF Violating(n) THEN 1 ELSE 0
    /\ \A i, j \in 1..Len(failures) :
         i < j =>
           \/ ClassOf(failures[i].node) < ClassOf(failures[j].node)
           \/ /\ ClassOf(failures[i].node) = ClassOf(failures[j].node)
              /\ failures[i].node < failures[j].node

\* apply has returned with a failure for a member of a class and one for a member
\* of a class nested in a member of that class.
C8_Witness ==
  /\ Done
  /\ \E i, j \in 1..Len(failures) :
       LET inner == ClassOf(failures[j].node)
       IN /\ i < j
          /\ ClassOf(failures[i].node) # inner
          /\ ClassOf(failures[i].node) \in AncestorsOrSelf(sourceFile, inner)

LabelledKinds ==
  {"MethodDeclaration", "PropertyDeclaration", "GetAccessor", "SetAccessor",
   "Parameter"}

\* C9: check, called on a node without public, private or protected, throws if
\* and only if the node's kind has no label, and then adds no failure; on a node
\* of a labelled kind it adds one failure.
C9_UnhandledKindThrows ==
  pc \in {"returned", "error"} =>
    LET n == visited[1] IN
    /\ pc = "error" <=> (~HasVisibility(n) /\ sourceFile[n].kind \notin LabelledKinds)
    /\ pc = "error" => failures = <<>>
    /\ (~HasVisibility(n) /\ sourceFile[n].kind \in LabelledKinds)
         => Len(failures) = 1

\* check was called on a constructor without a visibility modifier and threw.
C9_Witness ==
  /\ pc = "error"
  /\ sourceFile[visited[1]].kind = "Constructor"
  /\ ~HasVisibility(visited[1])

\* C10: apply never throws; every failure is for a method, an accessor or a
\* property without decorators; and the nodes visited and the nodes still to
\* visit never outnumber the nodes of the file, so the walk ends.
C10_NeverThrows ==
  /\ pc # "error"
  /\ \A i \in 1..Len(failures) :
       LET n == failures[i].node
       IN \/ sourceFile[n].kind \in {"MethodDeclaration", "GetAccessor", "SetAccessor"}
          \/ sourceFile[n].kind = "PropertyDeclaration" /\ ~HasDecorators(n)
  /\ Len(visited) + Len(stack) <= Len(sourceFile)

\* apply has returned for a class with a constructor that has no visibility
\* modifier and an index signature.
C10_Witness ==
  /\ Done
  /\ \E n, m \in Nodes(sourceFile) :
       /\ sourceFile[n].kind = "Constructor"
       /\ ~HasVisibility(n)
       /\ sourceFile[m].kind = "IndexSignature"
       /\ ClassOf(n) \in Range(visited)

====
